---- MODULE Spec2Model ----
(***************************************************************************)
(* The undo/redo command stack of rigcontrols/undo.py: command objects     *)
(* (SetAttrCommand, AppendCommand, AddItemCommand, CommandGroup and the    *)
(* base Command) living on a heap, the targets they mutate (one Python     *)
(* object with attributes, one list, one Qt-style item container), and     *)
(* the UndoStack with its history and future lists.                        *)
(*                                                                         *)
(* A Python call is a function from the state before the call to the       *)
(* state after it; an exception is the field "raised" of the result and    *)
(* ends the enclosing calls as it does in Python.                          *)
(***************************************************************************)
EXTENDS Integers, Sequences, FiniteSets, TLC

\* ---------------------------------------------------------------- bounds
\* number of command objects constructed
MaxCmds == 3
\* number of children handed to one CommandGroup
MaxKids == 2
\* length of the history list at which no new command is dispatched
MaxHist == 2
\* length of the target list at which no new command is dispatched
MaxList == 3
\* the most changes made to the targets past the stack in one behaviour
MaxOutside == 1
\* number of command objects constructed where groups hold groups
MaxNested == 4

\* ---------------------------------------------------------------- values
\* attribute names: the object has "x"; it has no attribute "y"
AttrNames == {"x", "y"}
\* values a SetAttrCommand may be constructed with
AttrItems == {"5", "9"}
\* values an AppendCommand may be constructed with
ListItems == {"a", "b"}
\* items an AddItemCommand may be constructed with
SceneItems == {"i1", "i2"}
\* Python's None (SetAttrCommand.originalItem before do())
None == "None"
\* marks an attribute the object does not have
Absent == "absent"
\* no exception
OK == "ok"

VARIABLES
    cmds,       \* heap of command objects, a command's identity is its index
    attrs,      \* the target object's attributes: name -> value or Absent
    lst,        \* the target list of the AppendCommands
    scn,        \* the target item container of the AddItemCommands: the items in it
    history,    \* UndoStack.history: command identities, most recent last
    future,     \* UndoStack.future: command identities, most recently undone last
    raised,     \* the exception the last call ended with, or OK
    op,         \* the last call made
    outside     \* the number of changes made to the targets past the stack

vars == <<cmds, attrs, lst, scn, history, future, raised, op, outside>>

\* the program state as one value, the argument and result of every call
\* log is the list of the command methods entered during the call, each with
\* the depth of its caller (0: called by the stack, 1: by a group, ...)
State ==
    [cmds |-> cmds, attrs |-> attrs, lst |-> lst, scn |-> scn,
     history |-> history, future |-> future, raised |-> raised,
     log |-> <<>>, depth |-> 0]

\* what the caller can observe of the targets
Targets(s) ==
    [attrs |-> s.attrs, lst |-> s.lst, scn |-> s.scn]

Front(q) ==
    SubSeq(q, 1, Len(q) - 1)

Last(q) ==
    q[Len(q)]

Reverse(q) ==
    [i \in 1..Len(q) |-> q[Len(q) + 1 - i]]

Range(q) ==
    {q[i] : i \in 1..Len(q)}

\* raise: the call ends with exception e
Raise(s, e) ==
    [s EXCEPT !.raised = e]

\* ------------------------------------------------- the targets' interfaces
\* getattr(object_, attrName) raises AttributeError on a missing attribute
HasAttr(s, name) ==
    s.attrs[name] # Absent

\* setattr(object_, attrName, value)
SetAttr(s, name, value) ==
    [s EXCEPT !.attrs[name] = value]

\* list.append(item)
ListAppend(s, item) ==
    [s EXCEPT !.lst = Append(s.lst, item)]

\* list.pop(): removes the last element, IndexError on an empty list
ListPop(s) ==
    IF s.lst = <<>> THEN Raise(s, "IndexError")
    ELSE [s EXCEPT !.lst = Front(s.lst)]

\* scene.addItem(item): the item is in the scene afterwards (Qt does not add
\* an item twice)
SceneAddItem(s, item) ==
    [s EXCEPT !.scn = s.scn \cup {item}]

\* scene.removeItem(item): that item is not in the scene afterwards
SceneRemoveItem(s, item) ==
    [s EXCEPT !.scn = s.scn \ {item}]

\* ---------------------------------------------------------------- commands
RECURSIVE do(_, _), undo(_, _), redo(_, _)
RECURSIVE DoEach(_, _), UndoEach(_, _), RedoEach(_, _)

\* mutant: the base class does nothing and returns
Command_do_Pass(s, c) ==
    s

Command_do(s, c) ==
    Raise(s, "TypeError")

Command_undo(s, c) ==
    Raise(s, "TypeError")

Command_redo(s, c) ==
    Raise(s, "TypeError")

\* mutant: redo takes a new snapshot before it sets the attribute
SetAttrCommand_redo_Resnapshots(s, c) ==
    SetAttr([s EXCEPT !.cmds[c].originalItem = s.attrs[s.cmds[c].attrName]],
            s.cmds[c].attrName, s.cmds[c].item)

SetAttrCommand_redo(s, c) ==
    SetAttr(s, s.cmds[c].attrName, s.cmds[c].item)

\* mutant: the snapshot is taken after the attribute was overwritten
SetAttrCommand_do_SnapshotLate(s, c) ==
    IF ~HasAttr(s, s.cmds[c].attrName) THEN Raise(s, "AttributeError")
    ELSE LET s1 == SetAttrCommand_redo(s, c)
         IN  [s1 EXCEPT !.cmds[c].originalItem = s1.attrs[s.cmds[c].attrName]]

\* mutant: the snapshot is taken only the first time the command is done
SetAttrCommand_do_FirstOnly(s, c) ==
    IF ~HasAttr(s, s.cmds[c].attrName) THEN Raise(s, "AttributeError")
    ELSE IF s.cmds[c].originalItem # None THEN SetAttrCommand_redo(s, c)
    ELSE SetAttrCommand_redo(
            [s EXCEPT !.cmds[c].originalItem = s.attrs[s.cmds[c].attrName]], c)

\* mutant: do only sets the attribute, as redo does
SetAttrCommand_do_NoSnapshot(s, c) ==
    IF ~HasAttr(s, s.cmds[c].attrName) THEN Raise(s, "AttributeError")
    ELSE SetAttrCommand_redo(s, c)

SetAttrCommand_do(s, c) ==
    IF ~HasAttr(s, s.cmds[c].attrName) THEN Raise(s, "AttributeError")
    ELSE SetAttrCommand_redo(
            [s EXCEPT !.cmds[c].originalItem = s.attrs[s.cmds[c].attrName]], c)

\* mutant: undo restores the snapshot only while the attribute still has the
\* command's value
SetAttrCommand_undo_IfCurrent(s, c) ==
    IF s.attrs[s.cmds[c].attrName] # s.cmds[c].item THEN s
    ELSE SetAttr(s, s.cmds[c].attrName, s.cmds[c].originalItem)

SetAttrCommand_undo(s, c) ==
    SetAttr(s, s.cmds[c].attrName, s.cmds[c].originalItem)

AppendCommand_redo(s, c) ==
    ListAppend(s, s.cmds[c].item)

AppendCommand_do(s, c) ==
    AppendCommand_redo(s, c)

\* mutant: undo removes the first element of the list
AppendCommand_undo_First(s, c) ==
    IF s.lst = <<>> THEN Raise(s, "IndexError")
    ELSE [s EXCEPT !.lst = Tail(s.lst)]

\* mutant: undo refuses to pop an element that is not the command's item
AppendCommand_undo_Checked(s, c) ==
    IF s.lst = <<>> THEN Raise(s, "IndexError")
    ELSE IF Last(s.lst) # s.cmds[c].item THEN Raise(s, "ValueError")
    ELSE ListPop(s)

AppendCommand_undo(s, c) ==
    ListPop(s)

AddItemCommand_redo(s, c) ==
    SceneAddItem(s, s.cmds[c].item)

AddItemCommand_do(s, c) ==
    AddItemCommand_redo(s, c)

\* mutant: undo empties the container
AddItemCommand_undo_Clear(s, c) ==
    [s EXCEPT !.scn = {}]

AddItemCommand_undo(s, c) ==
    SceneRemoveItem(s, s.cmds[c].item)

\* the body of a group's loop runs one level below the group
Enter(s) ==
    [s EXCEPT !.depth = s.depth + 1]

Leave(s) ==
    [s EXCEPT !.depth = s.depth - 1]

\* for command in q: command.do()   (an exception leaves the loop)
DoEach(s, q) ==
    IF q = <<>> THEN s
    ELSE LET s1 == do(s, Head(q))
         IN  IF s1.raised # OK THEN s1 ELSE DoEach(s1, Tail(q))

UndoEach(s, q) ==
    IF q = <<>> THEN s
    ELSE LET s1 == undo(s, Head(q))
         IN  IF s1.raised # OK THEN s1 ELSE UndoEach(s1, Tail(q))

RedoEach(s, q) ==
    IF q = <<>> THEN s
    ELSE LET s1 == redo(s, Head(q))
         IN  IF s1.raised # OK THEN s1 ELSE RedoEach(s1, Tail(q))

\* mutant: the children are done last to first
CommandGroup_do_Backward(s, c) ==
    Leave(DoEach(Enter(s), Reverse(s.cmds[c].commands)))

\* mutant: when a child raises, what the earlier children did is taken back
CommandGroup_do_Rollback(s, c) ==
    LET s1 == Leave(DoEach(Enter(s), s.cmds[c].commands))
    IN  IF s1.raised = OK THEN s1
        ELSE [s1 EXCEPT !.attrs = s.attrs, !.lst = s.lst, !.scn = s.scn,
                        !.cmds = s.cmds]

CommandGroup_do(s, c) ==
    Leave(DoEach(Enter(s), s.cmds[c].commands))

\* mutant: the children are undone in the order they were done
CommandGroup_undo_Forward(s, c) ==
    Leave(UndoEach(Enter(s), s.cmds[c].commands))

\* mutant: only the last child is undone
CommandGroup_undo_LastOnly(s, c) ==
    IF s.cmds[c].commands = <<>> THEN s
    ELSE Leave(UndoEach(Enter(s), <<Last(s.cmds[c].commands)>>))

\* mutant: only a group called from outside a group reverses its children
CommandGroup_undo_OuterOnly(s, c) ==
    Leave(UndoEach(Enter(s), IF s.depth = 0 THEN Reverse(s.cmds[c].commands)
                             ELSE s.cmds[c].commands))

CommandGroup_undo(s, c) ==
    Leave(UndoEach(Enter(s), Reverse(s.cmds[c].commands)))

\* mutant: redo takes the children out of the group as it calls them
CommandGroup_redo_Consumes(s, c) ==
    LET s1 == Leave(RedoEach(Enter(s), s.cmds[c].commands))
    IN  [s1 EXCEPT !.cmds[c].commands = <<>>]

CommandGroup_redo(s, c) ==
    Leave(RedoEach(Enter(s), s.cmds[c].commands))

\* the method m of command c is entered
Called(s, m, c) ==
    [s EXCEPT !.log = Append(s.log, [m |-> m, c |-> c, depth |-> s.depth])]

Class(s, c) ==
    s.cmds[c].kind

\* command.do(): Python's method lookup on the command's class
do(s, c) ==
    LET s0 == Called(s, "do", c)
    IN  CASE Class(s, c) = "SetAttr" -> SetAttrCommand_do(s0, c)
          [] Class(s, c) = "Append"  -> AppendCommand_do(s0, c)
          [] Class(s, c) = "AddItem" -> AddItemCommand_do(s0, c)
          [] Class(s, c) = "Group"   -> CommandGroup_do(s0, c)
          [] OTHER                   -> Command_do(s0, c)

undo(s, c) ==
    LET s0 == Called(s, "undo", c)
    IN  CASE Class(s, c) = "SetAttr" -> SetAttrCommand_undo(s0, c)
          [] Class(s, c) = "Append"  -> AppendCommand_undo(s0, c)
          [] Class(s, c) = "AddItem" -> AddItemCommand_undo(s0, c)
          [] Class(s, c) = "Group"   -> CommandGroup_undo(s0, c)
          [] OTHER                   -> Command_undo(s0, c)

redo(s, c) ==
    LET s0 == Called(s, "redo", c)
    IN  CASE Class(s, c) = "SetAttr" -> SetAttrCommand_redo(s0, c)
          [] Class(s, c) = "Append"  -> AppendCommand_redo(s0, c)
          [] Class(s, c) = "AddItem" -> AddItemCommand_redo(s0, c)
          [] Class(s, c) = "Group"   -> CommandGroup_redo(s0, c)
          [] OTHER                   -> Command_redo(s0, c)

\* ---------------------------------------------------------------- the stack
\* mutant: the future list is kept when a new command is pushed
UndoStack_push_KeepsFuture(s, c) ==
    [s EXCEPT !.history = Append(s.history, c)]

UndoStack_push(s, c) ==
    [s EXCEPT !.future = <<>>, !.history = Append(s.history, c)]

\* mutant: dispatch applies the command with redo(), skipping do()
UndoStack_dispatch_Redo(s, c) ==
    LET s1 == redo(Raise(s, OK), c)
    IN  IF s1.raised # OK THEN s1 ELSE UndoStack_push(s1, c)

\* mutant: the command is recorded whether or not its do() raised
UndoStack_dispatch_Records(s, c) ==
    LET s1 == do(Raise(s, OK), c)
    IN  Raise(UndoStack_push(s1, c), s1.raised)

\* mutant: a command that is already in history is recorded, not done again
UndoStack_dispatch_Once(s, c) ==
    IF c \in Range(s.history) THEN UndoStack_push(Raise(s, OK), c)
    ELSE LET s1 == do(Raise(s, OK), c)
         IN  IF s1.raised # OK THEN s1 ELSE UndoStack_push(s1, c)

UndoStack_dispatch(s, c) ==
    LET s1 == do(Raise(s, OK), c)
    IN  IF s1.raised # OK THEN s1 ELSE UndoStack_push(s1, c)

\* mutant: undo takes the oldest command of history
UndoStack_undo_Oldest(s) ==
    IF s.history = <<>> THEN Raise(s, "IndexError")
    ELSE LET c  == Head(s.history)
             s1 == undo([s EXCEPT !.raised = OK, !.history = Tail(s.history)], c)
         IN  IF s1.raised # OK THEN s1
             ELSE [s1 EXCEPT !.future = Append(s1.future, c)]

\* mutant: undo with nothing to undo returns silently
UndoStack_undo_Silent(s) ==
    IF s.history = <<>> THEN Raise(s, OK)
    ELSE LET c  == Last(s.history)
             s1 == undo([s EXCEPT !.raised = OK, !.history = Front(s.history)], c)
         IN  IF s1.raised # OK THEN s1
             ELSE [s1 EXCEPT !.future = Append(s1.future, c)]

\* mutant: undo leaves the command in history as well
UndoStack_undo_Keeps(s) ==
    IF s.history = <<>> THEN Raise(s, "IndexError")
    ELSE LET c  == Last(s.history)
             s1 == undo([s EXCEPT !.raised = OK], c)
         IN  IF s1.raised # OK THEN s1
             ELSE [s1 EXCEPT !.future = Append(s1.future, c)]

\* mutant: a command whose undo() raised is put back in history
UndoStack_undo_PutsBack(s) ==
    IF s.history = <<>> THEN Raise(s, "IndexError")
    ELSE LET c  == Last(s.history)
             s1 == undo([s EXCEPT !.raised = OK, !.history = Front(s.history)], c)
         IN  IF s1.raised # OK THEN [s1 EXCEPT !.history = Append(s1.history, c)]
             ELSE [s1 EXCEPT !.future = Append(s1.future, c)]

\* history.pop() raises IndexError on an empty list, before anything else
UndoStack_undo(s) ==
    IF s.history = <<>> THEN Raise(s, "IndexError")
    ELSE LET c  == Last(s.history)
             s1 == undo([s EXCEPT !.raised = OK, !.history = Front(s.history)], c)
         IN  IF s1.raised # OK THEN s1
             ELSE [s1 EXCEPT !.future = Append(s1.future, c)]

\* mutant: redo records the command through push, which clears future
UndoStack_redo_ThroughPush(s) ==
    IF s.future = <<>> THEN Raise(s, "IndexError")
    ELSE LET c  == Last(s.future)
             s1 == redo([s EXCEPT !.raised = OK, !.future = Front(s.future)], c)
         IN  IF s1.raised # OK THEN s1 ELSE UndoStack_push(s1, c)

\* mutant: redo with nothing to redo re-applies the last command of history
UndoStack_redo_Repeats(s) ==
    IF s.future = <<>>
    THEN IF s.history = <<>> THEN Raise(s, "IndexError")
         ELSE redo(Raise(s, OK), Last(s.history))
    ELSE LET c  == Last(s.future)
             s1 == redo([s EXCEPT !.raised = OK, !.future = Front(s.future)], c)
         IN  IF s1.raised # OK THEN s1
             ELSE [s1 EXCEPT !.history = Append(s1.history, c)]

\* mutant: redo executes the command from scratch, as dispatch does
UndoStack_redo_Do(s) ==
    IF s.future = <<>> THEN Raise(s, "IndexError")
    ELSE LET c  == Last(s.future)
             s1 == do([s EXCEPT !.raised = OK, !.future = Front(s.future)], c)
         IN  IF s1.raised # OK THEN s1
             ELSE [s1 EXCEPT !.history = Append(s1.history, c)]

\* mutant: redo takes the command that was undone first
UndoStack_redo_Oldest(s) ==
    IF s.future = <<>> THEN Raise(s, "IndexError")
    ELSE LET c  == Head(s.future)
             s1 == redo([s EXCEPT !.raised = OK, !.future = Tail(s.future)], c)
         IN  IF s1.raised # OK THEN s1
             ELSE [s1 EXCEPT !.history = Append(s1.history, c)]

\* mutant: redo puts the command at the front of history
UndoStack_redo_Front(s) ==
    IF s.future = <<>> THEN Raise(s, "IndexError")
    ELSE LET c  == Last(s.future)
             s1 == redo([s EXCEPT !.raised = OK, !.future = Front(s.future)], c)
         IN  IF s1.raised # OK THEN s1
             ELSE [s1 EXCEPT !.history = <<c>> \o s1.history]

\* future.pop() raises IndexError on an empty list, before anything else
UndoStack_redo(s) ==
    IF s.future = <<>> THEN Raise(s, "IndexError")
    ELSE LET c  == Last(s.future)
             s1 == redo([s EXCEPT !.raised = OK, !.future = Front(s.future)], c)
         IN  IF s1.raised # OK THEN s1
             ELSE [s1 EXCEPT !.history = Append(s1.history, c)]

\* ---------------------------------------------------------------- behaviour
\* the variables take the values of the state s a call returned
Becomes(s, name) ==
    /\ cmds' = s.cmds
    /\ attrs' = s.attrs
    /\ lst' = s.lst
    /\ scn' = s.scn
    /\ history' = s.history
    /\ future' = s.future
    /\ raised' = s.raised
    /\ op' = name
    /\ outside' = outside

\* a command object as its constructor leaves it
NewCommand(kind, attrName, item, commands) ==
    [kind |-> kind, attrName |-> attrName, item |-> item,
     originalItem |-> None, commands |-> commands]

Construct(c) ==
    /\ Len(cmds) < MaxCmds
    /\ Becomes([State EXCEPT !.cmds = Append(cmds, c), !.raised = OK], "new")

\* sequences of at most MaxKids existing commands
KidSeqs ==
    UNION {[1..n -> 1..Len(cmds)] : n \in 0..MaxKids}

Init ==
    /\ cmds = <<>>
    /\ attrs = [n \in AttrNames |-> IF n = "x" THEN "1" ELSE Absent]
    /\ lst = <<>>
    /\ scn = {}
    /\ history = <<>>
    /\ future = <<>>
    /\ raised = OK
    /\ op = "init"
    /\ outside = 0

NewBase ==
    Construct(NewCommand("Command", "", "", <<>>))

NewSetAttr ==
    \E n \in AttrNames, v \in AttrItems :
        Construct(NewCommand("SetAttr", n, v, <<>>))

NewAppend ==
    \E v \in ListItems : Construct(NewCommand("Append", "", v, <<>>))

NewAddItem ==
    \E v \in SceneItems : Construct(NewCommand("AddItem", "", v, <<>>))

NewGroup ==
    \E q \in KidSeqs : Construct(NewCommand("Group", "", "", q))

Dispatch ==
    \E c \in 1..Len(cmds) :
        /\ Len(history) < MaxHist
        /\ Len(lst) < MaxList
        /\ Becomes(UndoStack_dispatch(State, c), "dispatch")

Undo ==
    Becomes(UndoStack_undo(State), "undo")

Redo ==
    Becomes(UndoStack_redo(State), "redo")

Next ==
    \/ NewBase
    \/ NewSetAttr
    \/ NewAppend
    \/ NewAddItem
    \/ NewGroup
    \/ Dispatch
    \/ Undo
    \/ Redo

Spec == Init /\ [][Next]_vars

\* ----------------------------------------------- changes made past the stack
\* the application also changes its attributes, lists and scene directly,
\* without a command: here it does so between a successful dispatch and the
\* next call of the stack, at most MaxOutside times
Outside(s) ==
    /\ op = "dispatch" /\ raised = OK
    /\ outside < MaxOutside
    /\ cmds' = s.cmds
    /\ attrs' = s.attrs
    /\ lst' = s.lst
    /\ scn' = s.scn
    /\ history' = s.history
    /\ future' = s.future
    /\ raised' = OK
    /\ op' = "outside"
    /\ outside' = outside + 1

\* self.markerScale = markerScale
OutsideSetAttr ==
    \E v \in AttrItems \ {attrs["x"]} : Outside(SetAttr(State, "x", v))

\* self.markerList.append(newMarker)
OutsideAppend ==
    \E v \in ListItems :
        /\ Len(lst) < MaxList
        /\ Outside(ListAppend(State, v))

\* scene.addItem(newMarker)
OutsideAddItem ==
    \E v \in SceneItems \ scn : Outside(SceneAddItem(State, v))

\* scene.removeItem(item)
OutsideRemoveItem ==
    \E v \in scn : Outside(SceneRemoveItem(State, v))

NextOutside ==
    \/ Next
    \/ OutsideSetAttr
    \/ OutsideAppend
    \/ OutsideAddItem
    \/ OutsideRemoveItem

SpecOutside == Init /\ [][NextOutside]_vars

\* ------------------------------------------------------- groups of groups
\* a group, its two children and a group around it are four objects: here
\* up to MaxNested AppendCommands and CommandGroups are constructed
ConstructNested(c) ==
    /\ Len(cmds) < MaxNested
    /\ Becomes([State EXCEPT !.cmds = Append(cmds, c), !.raised = OK], "new")

NewNestedAppend ==
    \E v \in ListItems : ConstructNested(NewCommand("Append", "", v, <<>>))

NewNestedGroup ==
    \E q \in KidSeqs : ConstructNested(NewCommand("Group", "", "", q))

NextNested ==
    \/ NewNestedAppend
    \/ NewNestedGroup
    \/ Dispatch
    \/ Undo
    \/ Redo

SpecNested == Init /\ [][NextNested]_vars

\* ------------------------------------------------ commands pushed, not done
\* stack.push(command): the caller records a command it has not dispatched
Push ==
    \E c \in 1..Len(cmds) :
        /\ Len(history) < MaxHist
        /\ Becomes(UndoStack_push(Raise(State, OK), c), "push")

NextPush ==
    \/ Next
    \/ Push

SpecPush == Init /\ [][NextPush]_vars

TypeOK ==
    /\ Len(cmds) <= MaxCmds
    /\ Len(history) <= MaxHist
    /\ scn \subseteq SceneItems
    /\ raised \in {OK, "IndexError", "TypeError", "AttributeError"}

\* ------------------------------------------------------ runs of stack calls
\* the current state as the next call finds it: no exception is pending
Now ==
    [State EXCEPT !.raised = OK]

\* the identities of the constructed commands
Ids ==
    1..Len(cmds)

\* the state the program starts in
InitTargets ==
    [attrs |-> [n \in AttrNames |-> IF n = "x" THEN "1" ELSE Absent],
     lst |-> <<>>, scn |-> {}]

\* sequences of 1..MaxHist constructed commands, to be dispatched in a row
Runs ==
    UNION {[1..n -> Ids] : n \in 1..MaxHist}

RECURSIVE DispatchAll(_, _), UndoTimes(_, _), RedoTimes(_, _), Leaves(_, _)

\* stack.dispatch(q[1]); ...; stack.dispatch(q[n]), up to the first exception
DispatchAll(s, q) ==
    IF q = <<>> THEN s
    ELSE LET s1 == UndoStack_dispatch(s, Head(q))
         IN  IF s1.raised # OK THEN s1 ELSE DispatchAll(s1, Tail(q))

\* n times stack.undo(), up to the first exception
UndoTimes(s, n) ==
    IF n = 0 THEN s
    ELSE LET s1 == UndoStack_undo(s)
         IN  IF s1.raised # OK THEN s1 ELSE UndoTimes(s1, n - 1)

\* n times stack.redo(), up to the first exception
RedoTimes(s, n) ==
    IF n = 0 THEN s
    ELSE LET s1 == UndoStack_redo(s)
         IN  IF s1.raised # OK THEN s1 ELSE RedoTimes(s1, n - 1)

\* the primitive commands a command executes, groups flattened, in order
Leaves(s, c) ==
    IF s.cmds[c].kind # "Group" THEN <<c>>
    ELSE LET RECURSIVE Cat(_)
             Cat(q) == IF q = <<>> THEN <<>>
                       ELSE Leaves(s, Head(q)) \o Cat(Tail(q))
         IN  Cat(s.cmds[c].commands)

\* the primitive commands the run q executes, in order
RunLeaves(s, q) ==
    LET RECURSIVE Cat(_)
        Cat(r) == IF r = <<>> THEN <<>> ELSE Leaves(s, Head(r)) \o Cat(Tail(r))
    IN  Cat(q)

\* no SetAttrCommand object is executed twice in the run q, and no
\* AddItemCommand of q adds an item its container holds when it runs
SingleUse(s, q) ==
    LET l == RunLeaves(s, q)
    IN  \A i \in 1..Len(l) :
            /\ s.cmds[l[i]].kind = "SetAttr" =>
                   \A j \in 1..Len(l) : l[j] = l[i] => j = i
            /\ s.cmds[l[i]].kind = "AddItem" =>
                   /\ s.cmds[l[i]].item \notin s.scn
                   /\ \A j \in 1..Len(l) :
                          (s.cmds[l[j]].kind = "AddItem"
                           /\ s.cmds[l[j]].item = s.cmds[l[i]].item) => j = i

\* the run q dispatched from state s and undone again: every dispatch
\* succeeds, and Len(q) undos bring back the targets and the history of s and
\* leave the commands of q in future, the last dispatched first undone
UndoneRun(s, q) ==
    LET s1 == DispatchAll(s, q)
        s2 == UndoTimes(s1, Len(q))
    IN  s1.raised = OK =>
            /\ s2.raised = OK
            /\ Targets(s2) = Targets(s)
            /\ s2.history = s.history
            /\ s2.future = Reverse(q)

\* C1 as claimed: N commands of any kind, dispatched and then undone N times,
\* leave every attribute and container as before the first dispatch.
C1_AnyRunUndone ==
    \A q \in Runs : UndoneRun(Now, q)

\* C1 amended: N dispatched commands among which no SetAttrCommand object is
\* executed twice and no AddItemCommand adds an item already in its
\* container: N undos return the targets to their values before the first
\* dispatch, the commands being undone in reverse dispatch order.
C1_SingleUseRunUndone ==
    \A q \in Runs : SingleUse(Now, q) => UndoneRun(Now, q)

\* two different commands, one of them a SetAttrCommand, were dispatched on
\* the new stack and undone: the targets are as at the start
C1_Witness ==
    /\ op = "undo" /\ raised = OK
    /\ history = <<>> /\ Len(future) = 2
    /\ future[1] # future[2]
    /\ cmds[future[2]].kind = "SetAttr"
    /\ cmds[future[2]].originalItem = "1"
    /\ cmds[future[1]].kind \in {"Append", "Group"}
    /\ Targets(State) = InitTargets

\* ------------------------------------------------------------ C2
\* what a caller can tell two states apart by: targets, commands, the lists
Observable(s) ==
    [targets |-> Targets(s), cmds |-> s.cmds,
     history |-> s.history, future |-> s.future]

\* stack.undo(); stack.redo()
UndoRedo(s) ==
    UndoStack_redo(UndoStack_undo(s))

\* C2 as claimed: in every reachable state with a non-empty history, undo()
\* followed at once by redo() leaves the targets, history and future as they
\* were.
C2_UndoRedoAnywhere ==
    history # <<>> =>
        /\ UndoRedo(Now).raised = OK
        /\ Observable(UndoRedo(Now)) = Observable(State)

\* C2 amended: undo() followed at once by redo() always brings back the
\* history and future lists; it brings back the targets too when the pair
\* follows a successful dispatch or redo, whose effect is then still in place.
C2_UndoRedoAfterDo ==
    /\ history # <<>> =>
           /\ UndoRedo(Now).raised = OK
           /\ UndoRedo(Now).history = history
           /\ UndoRedo(Now).future = future
    /\ (op \in {"dispatch", "redo"} /\ raised = OK) =>
           /\ history # <<>>
           /\ Observable(UndoRedo(Now)) = Observable(State)

\* a group that changed the list was dispatched, and undo() then redo()
\* from here goes through a different state and comes back
C2_Witness ==
    /\ op = "dispatch" /\ raised = OK
    /\ Len(history) = 2
    /\ cmds[Last(history)].kind = "Group"
    /\ Targets(UndoStack_undo(Now)) # Targets(State)
    /\ UndoStack_undo(Now).future = <<Last(history)>>
    /\ Observable(UndoRedo(Now)) = Observable(State)

C4_UndoOnEmptyHistory ==
    history = <<>> =>
        /\ UndoStack_undo(Now).raised = "IndexError"
        /\ UndoStack_undo(Now).log = <<>>
        /\ Observable(UndoStack_undo(Now)) = Observable(State)

\* undo() was called once more than there were commands to undo
C4_Witness ==
    /\ op = "undo" /\ raised = "IndexError"
    /\ history = <<>> /\ Len(future) = 2
    /\ UndoStack_undo(Now).raised = "IndexError"

\* ------------------------------------------------------------ C5
\* C5: redo() on an empty future fails (list.pop() raises IndexError), no
\* command method is entered, and history, future, the commands and every
\* target stay as they are.
C5_RedoOnEmptyFuture ==
    future = <<>> =>
        /\ UndoStack_redo(Now).raised = "IndexError"
        /\ UndoStack_redo(Now).log = <<>>
        /\ Observable(UndoStack_redo(Now)) = Observable(State)

\* redo() was called with every dispatched command still in history
C5_Witness ==
    /\ op = "redo" /\ raised = "IndexError"
    /\ future = <<>> /\ Len(history) = 2
    /\ UndoStack_redo(Now).raised = "IndexError"

\* ------------------------------------------------------------ C6, C7
\* the command methods entered at depth d, in the order they were entered
CallsAt(s, d) ==
    LET q == SelectSeq(s.log, LAMBDA e : e.depth = d)
    IN  [i \in 1..Len(q) |-> <<q[i].m, q[i].c>>]

\* the calls m of the commands q, in that order
CallsOf(m, q) ==
    [i \in 1..Len(q) |-> <<m, q[i]>>]

IsPrefix(p, q) ==
    /\ Len(p) <= Len(q)
    /\ \A i \in 1..Len(p) : p[i] = q[i]

Groups ==
    {g \in Ids : cmds[g].kind = "Group"}

\* group g has two children, different SetAttrCommands of one attribute the
\* object has, setting different values
TwoSetAttr(g) ==
    /\ g \in Groups
    /\ Len(cmds[g].commands) = 2
    /\ cmds[g].commands[1] # cmds[g].commands[2]
    /\ \A i \in 1..2 : cmds[cmds[g].commands[i]].kind = "SetAttr"
    /\ cmds[cmds[g].commands[1]].attrName = cmds[cmds[g].commands[2]].attrName
    /\ cmds[cmds[g].commands[1]].item # cmds[cmds[g].commands[2]].item
    /\ attrs[cmds[cmds[g].commands[1]].attrName] # Absent

\* the children of group g called with method m in the order q: the calls
\* made are a prefix of q, and all of q when no child raised
ChildrenCalled(s1, m, q) ==
    /\ IsPrefix(CallsAt(s1, 1), CallsOf(m, q))
    /\ s1.raised = OK => CallsAt(s1, 1) = CallsOf(m, q)
    /\ s1.raised # OK => CallsAt(s1, 1) # <<>>

\* C6: CommandGroup.undo() calls undo() of its children cn, ..., c1, the
\* reverse of the construction order, so that a group of two SetAttrCommands
\* of one field, undone after its do(), restores the value the field had
\* before the do().
C6_GroupUndoReverse ==
    \A g \in Groups :
        /\ ChildrenCalled(undo(Now, g), "undo", Reverse(cmds[g].commands))
        /\ TwoSetAttr(g) =>
               /\ do(Now, g).raised = OK
               /\ Targets(undo(do(Now, g), g)) = Targets(State)

\* a group of two SetAttrCommands of x was dispatched and undone: x has its
\* first value again, which the second child alone would not restore
C6_Witness ==
    /\ op = "undo" /\ raised = OK /\ future # <<>>
    /\ TwoSetAttr(Last(future))
    /\ attrs["x"] = "1"
    /\ cmds[cmds[Last(future)].commands[1]].originalItem = "1"
    /\ cmds[cmds[Last(future)].commands[2]].originalItem # "1"

\* C7: CommandGroup.do() calls do() and CommandGroup.redo() calls redo() of
\* the children c1, ..., cn in construction order, so that a later child
\* finds the state the earlier children left: the second of two
\* SetAttrCommands of one field snapshots the first one's value, and the
\* field ends with the second one's value.
C7_GroupDoRedoForward ==
    \A g \in Groups :
        /\ ChildrenCalled(do(Now, g), "do", cmds[g].commands)
        /\ ChildrenCalled(redo(Now, g), "redo", cmds[g].commands)
        /\ TwoSetAttr(g) =>
               LET a == cmds[g].commands[1]
                   b == cmds[g].commands[2]
               IN  /\ do(Now, g).cmds[b].originalItem = cmds[a].item
                   /\ do(Now, g).cmds[a].originalItem = attrs[cmds[a].attrName]
                   /\ do(Now, g).attrs[cmds[b].attrName] = cmds[b].item
                   /\ redo(Now, g).attrs[cmds[b].attrName] = cmds[b].item

\* a group of two SetAttrCommands of x was dispatched: the second child has
\* the first one's value as its snapshot and x has the second one's value
C7_Witness ==
    /\ op = "dispatch" /\ raised = OK /\ history # <<>>
    /\ TwoSetAttr(Last(history))
    /\ cmds[cmds[Last(history)].commands[2]].originalItem
           = cmds[cmds[Last(history)].commands[1]].item
    /\ attrs["x"] = cmds[cmds[Last(history)].commands[2]].item

\* ------------------------------------------------------------ C8
\* C8: a dispatched CommandGroup is one entry of history; one undo() reverts
\* all its children and one redo() re-applies them: the targets and the
\* commands are then as after dispatching the children one by one and
\* undoing (redoing) as many times as there are children.
C8_GroupIsOneEntry ==
    \A g \in Groups :
        LET kids == cmds[g].commands
            n    == Len(kids)
            g1   == UndoStack_dispatch(Now, g)
            k1   == DispatchAll(Now, kids)
            g2   == UndoStack_undo(g1)
            k2   == UndoTimes(k1, n)
            g3   == UndoStack_redo(g2)
            k3   == RedoTimes(k2, n)
        IN  g1.raised = OK =>
                /\ g1.history = Append(history, g)
                /\ k1.raised = OK /\ Targets(k1) = Targets(g1) /\ k1.cmds = g1.cmds
                /\ g2.raised = OK /\ g2.history = history /\ g2.future = <<g>>
                /\ k2.raised = OK /\ Targets(k2) = Targets(g2) /\ k2.cmds = g2.cmds
                /\ g3.raised = OK /\ g3.history = Append(history, g) /\ g3.future = <<>>
                /\ k3.raised = OK /\ Targets(k3) = Targets(g3) /\ k3.cmds = g3.cmds

\* a group of a SetAttrCommand and an AppendCommand was dispatched on the new
\* stack and undone by one undo(): both targets are as at the start
C8_Witness ==
    /\ op = "undo" /\ raised = OK
    /\ history = <<>> /\ Len(future) = 1
    /\ future[1] \in Groups
    /\ Len(cmds[future[1]].commands) = 2
    /\ cmds[cmds[future[1]].commands[1]].kind = "SetAttr"
    /\ cmds[cmds[future[1]].commands[1]].originalItem = "1"
    /\ cmds[cmds[future[1]].commands[2]].kind = "Append"
    /\ Targets(State) = InitTargets
    /\ Targets(UndoStack_redo(Now)) # InitTargets

\* ------------------------------------------------------------ C9
\* the mutation of the primitive command c is in place in s1, applied to s
Applied(s, s1, c) ==
    /\ s.cmds[c].kind = "SetAttr" =>
           /\ s1.attrs[s.cmds[c].attrName] = s.cmds[c].item
           /\ s1.cmds[c].originalItem = s.attrs[s.cmds[c].attrName]
    /\ s.cmds[c].kind = "Append" => s1.lst = Append(s.lst, s.cmds[c].item)
    /\ s.cmds[c].kind = "AddItem" => s1.scn = s.scn \cup {s.cmds[c].item}

\* C9: dispatch(command) calls command.do() once and then records the
\* command: after a successful dispatch the mutation is applied, history is
\* the old history with the command appended, and future is empty.
C9_DispatchDoesThenRecords ==
    \A c \in Ids :
        LET s1 == UndoStack_dispatch(Now, c)
        IN  /\ CallsAt(s1, 0) = <<(<<"do", c>>)>>
            /\ s1.raised = do(Now, c).raised
            /\ s1.raised = OK =>
                   /\ Applied(State, s1, c)
                   /\ Targets(s1) = Targets(do(Now, c))
                   /\ s1.history = Append(history, c)
                   /\ s1.future = <<>>

\* a SetAttrCommand was dispatched after another command that had changed
\* x: it is the last of history, x has its value, its snapshot the old one
C9_Witness ==
    /\ op = "dispatch" /\ raised = OK
    /\ Len(history) = 2 /\ future = <<>>
    /\ history[1] # history[2]
    /\ cmds[history[2]].kind = "SetAttr"
    /\ attrs["x"] = cmds[history[2]].item
    /\ cmds[history[2]].originalItem \notin {None, "1"}

\* ------------------------------------------------------------ C10
\* C10: undo() with a non-empty history removes the last element of history,
\* calls that command's undo() once, and appends it to future; the other
\* elements of both lists stay where they are.
C10_UndoMovesLast ==
    history # <<>> =>
        LET s1 == UndoStack_undo(Now)
        IN  /\ s1.raised = OK
            /\ s1.history = Front(history)
            /\ CallsAt(s1, 0) = <<(<<"undo", Last(history)>>)>>
            /\ s1.future = Append(future, Last(history))

\* the second of two different commands was undone: the first is still in
\* history and the undone one is in future
C10_Witness ==
    /\ op = "undo" /\ raised = OK
    /\ Len(history) = 1 /\ Len(future) = 1
    /\ history[1] # future[1]
    /\ cmds[future[1]].kind = "Append"
    /\ UndoStack_undo(Now).future = <<future[1], history[1]>>

\* ------------------------------------------------------------ C11
\* C11: redo() with a non-empty future removes the last element of future,
\* calls that command's redo() (not its do()) once, and appends it to
\* history; the earlier elements of future stay, still to be redone.
C11_RedoMovesLast ==
    future # <<>> =>
        LET s1 == UndoStack_redo(Now)
        IN  /\ s1.raised = OK
            /\ s1.future = Front(future)
            /\ CallsAt(s1, 0) = <<(<<"redo", Last(future)>>)>>
            /\ s1.history = Append(history, Last(future))
            /\ Front(future) # <<>> =>
                   UndoStack_redo(s1).history
                       = history \o <<Last(future), Last(Front(future))>>

\* two different commands were undone and the one undone last was redone:
\* it is back in history and the other one is still in future
C11_Witness ==
    /\ op = "redo" /\ raised = OK
    /\ Len(history) = 1 /\ Len(future) = 1
    /\ history[1] # future[1]
    /\ UndoStack_redo(Now).history = <<history[1], future[1]>>
    /\ UndoStack_redo(Now).future = <<>>

\* ------------------------------------------------------------ C12
\* no element of history is an element of future
Disjoint(s) ==
    Range(s.history) \cap Range(s.future) = {}

\* no command object occurs at two positions of history and future together
Once(s) ==
    LET q == s.history \o s.future
    IN  \A i, j \in 1..Len(q) : q[i] = q[j] => i = j

\* C12 as claimed: in every state reachable by dispatch, undo and redo with
\* any command objects, no command object is in both history and future.
C12_Disjoint ==
    Disjoint(State)

\* C12 amended: while no command object is dispatched that is already an
\* element of history, every object occurs at most once in history and
\* future together, so the two are disjoint: dispatch of an object not in
\* history, undo and redo each keep that, and it holds on the new stack.
C12_DisjointWhileOnce ==
    /\ Once([history |-> <<>>, future |-> <<>>])
    /\ Once(State) =>
           /\ Disjoint(State)
           /\ history # <<>> => Once(UndoStack_undo(Now))
           /\ future # <<>> => Once(UndoStack_redo(Now))
           /\ \A c \in Ids \ Range(history) :
                  Once(UndoStack_dispatch(Now, c))

\* of two different commands dispatched once each the second was undone:
\* one is in history, the other in future
C12_Witness ==
    /\ op = "undo" /\ raised = OK
    /\ Len(history) = 1 /\ Len(future) = 1
    /\ history[1] # future[1]
    /\ Once(State)
    /\ Once(UndoStack_redo(Now)) /\ Once(UndoStack_undo(Now))

\* ------------------------------------------------------------ C13
\* the last k elements of the sequence q
LastK(q, k) ==
    SubSeq(q, Len(q) - k + 1, Len(q))

\* C13: history holds the commands oldest first and future the undone ones
\* in the order they were undone: k undos move the last k commands of
\* history to the end of future, newest first, and k redos then re-apply
\* them in their original order and leave history and future, element for
\* element, as they were before the undos.
C13_UndosThenRedosInOrder ==
    \A k \in 1..Len(history) :
        LET s1 == UndoTimes(Now, k)
            s2 == RedoTimes(s1, k)
        IN  /\ s1.raised = OK
            /\ s1.history = SubSeq(history, 1, Len(history) - k)
            /\ s1.future = future \o Reverse(LastK(history, k))
            /\ s2.raised = OK
            /\ CallsAt(s2, 0) = CallsOf("undo", Reverse(LastK(history, k)))
                                    \o CallsOf("redo", LastK(history, k))
            /\ s2.history = history
            /\ s2.future = future

\* two different commands are in history after a redo, and two undos put
\* them in future in the opposite order
C13_Witness ==
    /\ op = "redo" /\ raised = OK
    /\ Len(history) = 2 /\ future = <<>>
    /\ history[1] # history[2]
    /\ UndoTimes(Now, 2).future = <<history[2], history[1]>>
    /\ RedoTimes(UndoTimes(Now, 2), 2).history = history

\* ------------------------------------------------------------ C14
\* C14: after a run of N successful dispatches, k <= N undos followed by k
\* redos leave every target as it was right after the N dispatches, with
\* history as it was and future empty again.
C14_UndosThenRedosRestore ==
    \A q \in Runs :
        LET s1 == DispatchAll(Now, q)
        IN  s1.raised = OK =>
                \A k \in 1..Len(q) :
                    LET s2 == UndoTimes(s1, k)
                        s3 == RedoTimes(s2, k)
                    IN  /\ s2.raised = OK /\ Len(s2.future) = k
                        /\ s3.raised = OK
                        /\ Targets(s3) = Targets(s1)
                        /\ s3.history = s1.history
                        /\ s3.future = <<>>

\* 'a' and 'b' were appended to the empty list by two commands, both were
\* undone and redone: the list is ['a', 'b'], two undos would empty it again
C14_Witness ==
    /\ op = "redo" /\ raised = OK
    /\ Len(history) = 2 /\ future = <<>>
    /\ cmds[history[1]].kind = "Append" /\ cmds[history[1]].item = "a"
    /\ cmds[history[2]].kind = "Append" /\ cmds[history[2]].item = "b"
    /\ lst = <<"a", "b">>
    /\ UndoTimes(Now, 2).lst = <<>>
    /\ UndoTimes(Now, 1).lst = <<"a">>

\* ------------------------------------------------------------ C15
\* the constructed commands of the base class Command
Bases ==
    {c \in Ids : cmds[c].kind = "Command"}

\* the call that produced s1 raised and changed nothing
FailedUnchanged(s1) ==
    /\ s1.raised # OK
    /\ Observable(s1) = Observable(State)

\* C15: do(), undo() and redo() of a base Command always raise and change
\* no target and no command; dispatching one raises and leaves history and
\* future as they were.
C15_BaseCommandFails ==
    \A c \in Bases :
        /\ FailedUnchanged(do(Now, c))
        /\ FailedUnchanged(undo(Now, c))
        /\ FailedUnchanged(redo(Now, c))
        /\ FailedUnchanged(UndoStack_dispatch(Now, c))
        /\ CallsAt(UndoStack_dispatch(Now, c), 0) = <<(<<"do", c>>)>>

\* a base Command was dispatched, with one command in history and one in
\* future: the dispatch raised and both are still there
C15_Witness ==
    /\ op = "dispatch" /\ raised = "TypeError"
    /\ \A c \in Ids : cmds[c].kind # "Group"
    /\ Bases # {}
    /\ Len(history) = 1 /\ Len(future) = 1

\* ------------------------------------------------------------ C16
Methods ==
    {"do", "undo", "redo"}

\* command.m()
Call(m, s, c) ==
    CASE m = "do" -> do(s, c)
      [] m = "undo" -> undo(s, c)
      [] m = "redo" -> redo(s, c)

RECURSIVE CallEach(_, _, _)
\* q[1].m(); ...; q[n].m(), each called by itself, up to the first exception
CallEach(m, s, q) ==
    IF q = <<>> THEN s
    ELSE LET s1 == Call(m, s, Head(q))
         IN  IF s1.raised # OK THEN s1 ELSE CallEach(m, s1, Tail(q))

\* the order in which a group calls the method m of the children q
Order(m, q) ==
    IF m = "undo" THEN Reverse(q) ELSE q

\* C16: when the k-th child a CommandGroup calls in do(), undo() or redo()
\* raises, nothing is rolled back: targets and commands are as the k-1
\* children called before it and the failing call itself left them, no later
\* child is called, and the group's method raises the child's exception.
C16_GroupFailsWithoutRollback ==
    \A g \in Groups : \A m \in Methods :
        LET q   == Order(m, cmds[g].commands)
            s1  == Call(m, Now, g)
            k   == Len(CallsAt(s1, 1))
            pre == CallEach(m, Now, SubSeq(q, 1, k - 1))
        IN  s1.raised # OK =>
                /\ k \in 1..Len(q)
                /\ CallsAt(s1, 1) = CallsOf(m, SubSeq(q, 1, k))
                /\ pre.raised = OK
                /\ s1.raised = Call(m, pre, q[k]).raised
                /\ Targets(s1) = Targets(Call(m, pre, q[k]))
                /\ s1.cmds = Call(m, pre, q[k]).cmds
                /\ s1.history = history /\ s1.future = future

\* a group of an AppendCommand and a base Command was dispatched on the new
\* stack: the dispatch raised, and the item is in the list all the same
C16_Witness ==
    /\ op = "dispatch" /\ raised = "TypeError"
    /\ history = <<>> /\ future = <<>>
    /\ \E g \in Groups :
           /\ Len(cmds[g].commands) = 2
           /\ cmds[cmds[g].commands[1]].kind = "Append"
           /\ cmds[cmds[g].commands[2]].kind = "Command"
           /\ lst = <<cmds[cmds[g].commands[1]].item>>
           /\ Targets(do(Now, g)) # Targets(State)

\* ------------------------------------------------------------ C17
\* the constructed SetAttrCommands
SetAttrs ==
    {c \in Ids : cmds[c].kind = "SetAttr"}

\* C17: SetAttrCommand.do() stores in originalItem the value the attribute
\* has immediately before the overwrite, whatever it stored before, and then
\* sets the attribute to the command's value.
C17_DoSnapshotsThenSets ==
    \A c \in SetAttrs :
        HasAttr(Now, cmds[c].attrName) =>
            LET s1 == do(Now, c)
            IN  /\ s1.raised = OK
                /\ s1.cmds[c].originalItem = attrs[cmds[c].attrName]
                /\ s1.attrs[cmds[c].attrName] = cmds[c].item

\* two SetAttrCommands of x with different values were dispatched one after
\* the other: the snapshot of the second is the value the first one set
C17_Witness ==
    /\ op = "dispatch" /\ raised = OK
    /\ Len(history) = 2
    /\ history[1] # history[2]
    /\ cmds[history[1]].kind = "SetAttr" /\ cmds[history[2]].kind = "SetAttr"
    /\ cmds[history[1]].originalItem = "1"
    /\ cmds[history[2]].originalItem = cmds[history[1]].item
    /\ cmds[history[2]].item # cmds[history[1]].item
    /\ attrs["x"] = cmds[history[2]].item

\* ------------------------------------------------------------ C18
\* the constructed commands that are neither groups nor base Commands
Primitives ==
    {c \in Ids : cmds[c].kind \in {"SetAttr", "Append", "AddItem"}}

\* the call of method m of the primitive command c that led from s to s1
\* changed no command except, in SetAttrCommand.do(), the snapshot of c
CommandsKept(s, s1, m, c) ==
    \A d \in 1..Len(s.cmds) :
        \/ s1.cmds[d] = s.cmds[d]
        \/ /\ d = c /\ m = "do" /\ s.cmds[c].kind = "SetAttr"
           /\ s1.cmds[d] = [s.cmds[d] EXCEPT
                               !.originalItem = s1.cmds[d].originalItem]

\* the call of a method of the primitive command c that led from s to s1
\* changed nothing but the one target of c: the named attribute, the list or
\* the scene
OthersKept(s, s1, c) ==
    /\ s.cmds[c].kind = "SetAttr" =>
           /\ s1.lst = s.lst /\ s1.scn = s.scn
           /\ \A n \in AttrNames \ {s.cmds[c].attrName} :
                  s1.attrs[n] = s.attrs[n]
    /\ s.cmds[c].kind = "Append" => s1.attrs = s.attrs /\ s1.scn = s.scn
    /\ s.cmds[c].kind = "AddItem" => s1.attrs = s.attrs /\ s1.lst = s.lst
    /\ s1.history = s.history /\ s1.future = s.future

\* C18: a command changes its own state only in SetAttrCommand.do(), which
\* stores the snapshot: undo() and redo() leave snapshot and value as they
\* are, AppendCommand and AddItemCommand never change their item, and every
\* method of a primitive command changes only that command's one target (a
\* SetAttrCommand only the named attribute).
C18_CommandsChangeOnlyTheirTarget ==
    \A c \in Primitives : \A m \in Methods :
        LET s1 == Call(m, Now, c)
        IN  /\ Len(s1.cmds) = Len(cmds)
            /\ CommandsKept(Now, s1, m, c)
            /\ OthersKept(Now, s1, c)

\* an AppendCommand and then a SetAttrCommand that changes x were undone and
\* redone: the SetAttrCommand still holds the snapshot "1" of its do(), and
\* the list holds the one item of the AppendCommand
C18_Witness ==
    /\ op = "redo" /\ raised = OK
    /\ Len(history) = 2 /\ future = <<>>
    /\ cmds[history[1]].kind = "Append"
    /\ cmds[history[2]].kind = "SetAttr"
    /\ cmds[history[2]].originalItem = "1"
    /\ attrs["x"] = cmds[history[2]].item
    /\ lst = <<cmds[history[1]].item>>
    /\ scn = {}

\* ------------------------------------------------------------ C19
\* C19: SetAttrCommand.undo() writes the snapshot taken by do() whatever the
\* attribute's current value is: when something else has changed the
\* attribute since do(), undo() still sets it to originalItem, the same
\* result as without that change, and it raises nothing.
C19_UndoWritesSnapshot ==
    \A c \in SetAttrs :
        LET n == cmds[c].attrName
        IN  /\ \A v \in AttrItems \cup {"1"} :
                   LET s1 == undo(SetAttr(Now, n, v), c)
                   IN  /\ s1.raised = OK
                       /\ s1.attrs[n] = cmds[c].originalItem
                       /\ Observable(s1) = Observable(undo(Now, c))
            /\ (history # <<>> /\ Last(history) = c) =>
                   UndoStack_undo(Now).attrs[n] = cmds[c].originalItem

\* the only command, a SetAttrCommand of x, was dispatched, x was then given
\* another value past the stack, and the command was undone: x is "1" again
C19_Witness ==
    /\ op = "undo" /\ raised = OK
    /\ outside = 1 /\ lst = <<>> /\ scn = {}
    /\ Len(cmds) = 1 /\ cmds[1].kind = "SetAttr" /\ cmds[1].attrName = "x"
    /\ history = <<>> /\ future = <<1>>
    /\ cmds[1].originalItem = "1"
    /\ attrs["x"] = "1"

\* ------------------------------------------------------------ C20
\* the constructed AppendCommands
Appends ==
    {c \in Ids : cmds[c].kind = "Append"}

\* C20: AppendCommand.undo() removes whatever element is last in the list
\* when it runs, without looking at it: when another element was appended
\* after the command's do(), undo() removes that element, the command's own
\* item stays in the list, and nothing is raised.
C20_UndoPopsWhateverIsLast ==
    \A c \in Appends :
        /\ lst # <<>> =>
               /\ undo(Now, c).raised = OK
               /\ undo(Now, c).lst = Front(lst)
        /\ \A v \in ListItems :
               LET s1 == undo(ListAppend(do(Now, c), v), c)
               IN  /\ s1.raised = OK
                   /\ s1.lst = Append(lst, cmds[c].item)
        /\ (history # <<>> /\ Last(history) = c /\ lst # <<>>) =>
               UndoStack_undo(Now).lst = Front(lst)

\* the only command, an AppendCommand, was dispatched, another element was
\* appended to the list past the stack, and the command was undone: the
\* command is in future and its item is still in the list
C20_Witness ==
    /\ op = "undo" /\ raised = OK
    /\ outside = 1 /\ attrs["x"] = "1" /\ scn = {}
    /\ Len(cmds) = 1 /\ cmds[1].kind = "Append"
    /\ history = <<>> /\ future = <<1>>
    /\ lst = <<cmds[1].item>>

\* ------------------------------------------------------------ C21
\* the constructed AddItemCommands
AddItems ==
    {c \in Ids : cmds[c].kind = "AddItem"}

\* C21: AddItemCommand.undo() removes the command's own item from the
\* container, wherever it is among the items: items added after the
\* command's do() stay in the container, and nothing is raised.
C21_UndoRemovesOwnItem ==
    \A c \in AddItems :
        /\ undo(Now, c).raised = OK
        /\ undo(Now, c).scn = scn \ {cmds[c].item}
        /\ \A v \in SceneItems \ {cmds[c].item} :
               LET s1 == undo(SceneAddItem(do(Now, c), v), c)
               IN  /\ s1.raised = OK
                   /\ s1.scn = (scn \cup {v}) \ {cmds[c].item}
        /\ (history # <<>> /\ Last(history) = c) =>
               UndoStack_undo(Now).scn = scn \ {cmds[c].item}

\* the only command, an AddItemCommand, was dispatched, another item was
\* added to the scene past the stack, and the command was undone: the other
\* item alone is in the scene
C21_Witness ==
    /\ op = "undo" /\ raised = OK
    /\ outside = 1 /\ attrs["x"] = "1" /\ lst = <<>>
    /\ Len(cmds) = 1 /\ cmds[1].kind = "AddItem"
    /\ history = <<>> /\ future = <<1>>
    /\ scn = SceneItems \ {cmds[1].item}

\* ------------------------------------------------------------ C22
\* C22: when command.do() raises inside dispatch, dispatch raises the same
\* exception and the stack is as before: the command is not in history,
\* future is not emptied, and the command undone last can still be redone.
C22_FailedDispatchLeavesStack ==
    \A c \in Ids :
        LET s0 == do(Now, c)
            s1 == UndoStack_dispatch(Now, c)
        IN  s0.raised # OK =>
                /\ s1.raised = s0.raised
                /\ s1.history = history /\ s1.future = future
                /\ Targets(s1) = Targets(s0) /\ s1.cmds = s0.cmds
                /\ future # <<>> =>
                       /\ UndoStack_redo(s1).raised = OK
                       /\ UndoStack_redo(s1).history
                              = Append(history, Last(future))

\* a SetAttrCommand of an attribute the object does not have was dispatched
\* after an undo: the dispatch raised AttributeError, the undone command is
\* still in future and the earlier one in history
C22_Witness ==
    /\ op = "dispatch" /\ raised = "AttributeError"
    /\ Len(history) = 1 /\ Len(future) = 1
    /\ history[1] # future[1]
    /\ \E c \in SetAttrs : cmds[c].attrName = "y"
    /\ attrs["y"] = Absent
    /\ UndoStack_redo(Now).history = <<history[1], future[1]>>

\* ------------------------------------------------------------ C23
\* the calls made during the call that led to s on commands that are not
\* groups, in the order they were made
LeafCalls(s) ==
    LET q == SelectSeq(s.log, LAMBDA e : s.cmds[e.c].kind # "Group")
    IN  [i \in 1..Len(q) |-> <<q[i].m, q[i].c>>]

\* the items of the commands q, in that order
ItemsOf(q) ==
    [i \in 1..Len(q) |-> cmds[q[i]].item]

\* C23: a group inside a group is executed recursively: do() and redo() of
\* the outer group call the primitive commands in flattened left-to-right
\* order, undo() calls them in exactly the reverse of that order (up to the
\* first call that raises).
C23_NestedGroupsFlattened ==
    \A g \in Groups : \A m \in Methods :
        LET s1   == Call(m, Now, g)
            want == CallsOf(m, Order(m, Leaves(Now, g)))
        IN  /\ IsPrefix(LeafCalls(s1), want)
            /\ s1.raised = OK =>
                   /\ LeafCalls(s1) = want
                   /\ m # "undo" =>
                          s1.lst = lst \o ItemsOf(Leaves(Now, g))
                   /\ m = "do" => undo(s1, g).lst = lst

\* a group that holds a group was dispatched on the new stack, with two
\* AppendCommands of different items among the primitive commands: the list
\* holds the items in flattened order
C23_Witness ==
    /\ op = "dispatch" /\ raised = OK
    /\ Len(history) = 1 /\ future = <<>>
    /\ cmds[history[1]].kind = "Group"
    /\ \E h \in Range(cmds[history[1]].commands) :
           /\ cmds[h].kind = "Group"
           /\ Len(cmds[h].commands) = 2
           /\ cmds[h].commands[1] # cmds[h].commands[2]
    /\ Len(lst) >= 2 /\ lst[1] # lst[2]
    /\ lst = ItemsOf(Leaves(Now, history[1]))
    /\ UndoStack_undo(Now).lst = <<>>

\* ------------------------------------------------------------ C24
\* the children of every constructed command, in their order
Kids(s) ==
    [d \in 1..Len(s.cmds) |-> s.cmds[d].commands]

\* C24: the children of a CommandGroup are those it was constructed with:
\* no do(), undo() or redo() of a group, and no dispatch, undo or redo of
\* the stack, adds, removes or reorders the children of any group.
C24_ChildrenFixed ==
    /\ \A g \in Groups : \A m \in Methods :
           Kids(Call(m, Now, g)) = Kids(State)
    /\ \A c \in Ids : Kids(UndoStack_dispatch(Now, c)) = Kids(State)
    /\ Kids(UndoStack_undo(Now)) = Kids(State)
    /\ Kids(UndoStack_redo(Now)) = Kids(State)

\* the third object, a group of the first two, different commands, was
\* dispatched, undone and redone: its children are still the first and the
\* second object, in that order
C24_Witness ==
    /\ op = "redo" /\ raised = OK
    /\ history = <<3>> /\ future = <<>>
    /\ cmds[3].kind = "Group" /\ cmds[3].commands = <<1, 2>>
    /\ cmds[1].kind = "SetAttr" /\ cmds[1].originalItem # None
    /\ cmds[2].kind = "Append" /\ lst = <<cmds[2].item>>

\* ------------------------------------------------------------ C25
\* C25: when the undo() of the last command of history raises inside
\* stack.undo(), stack.undo() raises the same exception with the command
\* already removed from history and not appended to future; and when the
\* redo() of the last command of future raises inside stack.redo(), the
\* command is removed from future and not appended to history.
C25_FailedUndoRedoLosesCommand ==
    /\ history # <<>> =>
           LET c  == Last(history)
               s0 == undo(Now, c)
               s1 == UndoStack_undo(Now)
           IN  s0.raised # OK =>
                   /\ s1.raised = s0.raised
                   /\ s1.history = Front(history)
                   /\ s1.future = future
                   /\ Targets(s1) = Targets(s0) /\ s1.cmds = s0.cmds
    /\ \A c \in Ids :
           LET s0 == redo(Now, c)
               s1 == UndoStack_redo([Now EXCEPT !.future = Append(future, c)])
           IN  s0.raised # OK =>
                   /\ s1.raised = s0.raised
                   /\ s1.future = future
                   /\ s1.history = history
                   /\ Targets(s1) = Targets(s0) /\ s1.cmds = s0.cmds

\* the only command, a base Command, was pushed and stack.undo() was called:
\* it raised, and the command is in neither history nor future
C25_Witness ==
    /\ op = "undo" /\ raised = "TypeError"
    /\ Len(cmds) = 1 /\ cmds[1].kind = "Command"
    /\ history = <<>> /\ future = <<>>

\* ------------------------------------------------------------ C26
\* the commands of the stack in one sequence: history, then future from
\* the command undone last to the one undone first
Timeline(s) ==
    s.history \o Reverse(s.future)

\* C26: an undo() or redo() that succeeds only moves one command from one
\* list to the other: history followed by the reverse of future, and so
\* len(history) + len(future), is the same before and after; a successful
\* dispatch or push makes it the old history plus the command.
C26_UndoRedoOnlyMove ==
    /\ history # <<>> =>
           LET s1 == UndoStack_undo(Now)
           IN  s1.raised = OK =>
                   /\ Timeline(s1) = Timeline(State)
                   /\ Len(s1.history) + Len(s1.future)
                          = Len(history) + Len(future)
    /\ future # <<>> =>
           LET s1 == UndoStack_redo(Now)
           IN  s1.raised = OK =>
                   /\ Timeline(s1) = Timeline(State)
                   /\ Len(s1.history) + Len(s1.future)
                          = Len(history) + Len(future)
    /\ \A c \in Ids :
           /\ Timeline(UndoStack_push(Now, c)) = Append(history, c)
           /\ LET s1 == UndoStack_dispatch(Now, c)
              IN  Timeline(s1) = IF s1.raised = OK THEN Append(history, c)
                                 ELSE Timeline(State)

\* of two different commands in history, one pushed and one dispatched,
\* both were undone and one was redone: each list holds one of them
C26_Witness ==
    /\ op = "redo" /\ raised = OK
    /\ Len(history) = 1 /\ Len(future) = 1
    /\ history[1] # future[1]
    /\ cmds[history[1]].kind = "SetAttr"
    /\ cmds[history[1]].originalItem = None
    /\ cmds[future[1]].kind = "Append"
    /\ Timeline(UndoStack_undo(Now)) = Timeline(State)
    /\ Timeline(UndoStack_redo(Now)) = Timeline(State)

\* ------------------------------------------------------------ C27
\* what may be dispatched between two dispatches of one command: nothing,
\* or one command
Between ==
    {<<>>} \cup {<<d>> : d \in Ids}

\* C27: a SetAttrCommand object dispatched a second time overwrites its
\* snapshot with the attribute's value at that time; from then on every
\* undo() of the object, the undo of its first history entry included, sets
\* the attribute to the value seen just before the second do(), not to the
\* value seen before the first.
C27_RedispatchOverwritesSnapshot ==
    \A c \in SetAttrs : \A q \in Between :
        LET n  == cmds[c].attrName
            s1 == DispatchAll(Now, <<c>> \o q)
            s2 == UndoStack_dispatch(s1, c)
        IN  (s1.raised = OK /\ s2.raised = OK) =>
                /\ s2.cmds[c].originalItem = s1.attrs[n]
                /\ UndoTimes(s2, 1).attrs[n] = s1.attrs[n]
                /\ UndoTimes(s2, Len(q) + 2).raised = OK
                /\ UndoTimes(s2, Len(q) + 2).attrs[n] = s1.attrs[n]
                /\ UndoTimes(s2, Len(q) + 2).history = history

\* the only command, a SetAttrCommand of x, was dispatched twice on the new
\* stack and undone twice: x has the command's value, not "1"
C27_Witness ==
    /\ op = "undo" /\ raised = OK
    /\ Len(cmds) = 1 /\ cmds[1].kind = "SetAttr" /\ cmds[1].attrName = "x"
    /\ history = <<>> /\ future = <<1, 1>>
    /\ cmds[1].originalItem = cmds[1].item
    /\ attrs["x"] = cmds[1].item

\* ------------------------------------------------------------ C28
\* the SetAttrCommands among command c and, for a group, its children,
\* groups flattened
SetAttrsIn(c) ==
    {d \in Range(Leaves(Now, c)) : cmds[d].kind = "SetAttr"}

\* C28: with the stack driven through dispatch, undo and redo only, every
\* SetAttrCommand that is in history or future, itself or as a child of a
\* group, has had its do() executed: its originalItem is a snapshot, not
\* the None of the constructor, and no undo() of the stack writes that None
\* into an attribute.
C28_RecordedSetAttrHasSnapshot ==
    /\ \A c \in Range(history) \cup Range(future) :
           \A d \in SetAttrsIn(c) : cmds[d].originalItem \notin {None, Absent}
    /\ \A n \in AttrNames : attrs[n] # None
    /\ history # <<>> =>
           \A n \in AttrNames : UndoStack_undo(Now).attrs[n] # None

\* a SetAttrCommand of x and then a group holding another SetAttrCommand of
\* x were dispatched and the group was undone: both commands hold their
\* snapshots and x has the first command's value
C28_Witness ==
    /\ op = "undo" /\ raised = OK
    /\ Len(history) = 1 /\ Len(future) = 1
    /\ cmds[history[1]].kind = "SetAttr"
    /\ cmds[history[1]].originalItem = "1"
    /\ cmds[future[1]].kind = "Group"
    /\ \E d \in SetAttrsIn(future[1]) :
           /\ d # history[1]
           /\ cmds[d].originalItem = cmds[history[1]].item
    /\ attrs["x"] = cmds[history[1]].item
====
